---- MODULE Spec2Model ----
(***************************************************************************)
(* A model of the yaml-hash crate (src/src/lib.rs): the YamlHash wrapper,  *)
(* the free functions merge and get_yaml, and the operations of the        *)
(* ordered map (yaml_rust2::yaml::Hash, a hashlink LinkedHashMap) they     *)
(* call.                                                                   *)
(*                                                                         *)
(* A string is a sequence of one-character strings, so that splitting a    *)
(* dotted key on "." and joining the rest are computed, not assumed.       *)
(* A Yaml value is a record with a tag; a Hash is a sequence of entries    *)
(* [k, v] with pairwise different keys, in insertion order.                *)
(***************************************************************************)
EXTENDS Naturals, Sequences, FiniteSets

VARIABLES store, last

vars == <<store, last>>

----------------------------------------------------------------------------
(* Bounds of the model *)

\* total number of entries (nested ones included) of the two operands of a merge
MaxMergeNodes == 5
\* total number of entries (nested ones included) of the root of a lookup
MaxRootNodes == 3
\* length of a dotted key, in characters
MaxKeyLen == 5
\* number of containers alive in the lifecycle specification
MaxStore == 4
\* number of documents of a text given to merge_str
MaxDocs == 2

----------------------------------------------------------------------------
(* Yaml values *)

YInteger(n) == [t |-> "Integer", n |-> n, s |-> <<>>, h |-> <<>>]
YString(s) == [t |-> "String", n |-> 0, s |-> s, h |-> <<>>]
YHash(h) == [t |-> "Hash", n |-> 0, s |-> <<>>, h |-> h]
YBadValue == [t |-> "BadValue", n |-> 0, s |-> <<>>, h |-> <<>>]

\* Yaml::into_hash: Some(h) for a Hash, None for anything else
into_hash(y) == IF y.t = "Hash" THEN <<y.h>> ELSE <<>>

\* the separator get_yaml is called with
Dot == "."

----------------------------------------------------------------------------
(* The ordered map *)

Hash_keys(h) == {h[i].k : i \in DOMAIN h}

Hash_contains_key(h, k) == \E i \in DOMAIN h : h[i].k = k

Hash_index(h, k) == CHOOSE i \in DOMAIN h : h[i].k = k

\* Option<&Yaml>: <<>> is None, <<v>> is Some(v)
Hash_get(h, k) == IF Hash_contains_key(h, k) THEN <<h[Hash_index(h, k)].v>> ELSE <<>>

RemoveAt(h, i) == SubSeq(h, 1, i - 1) \o SubSeq(h, i + 1, Len(h))

\* LinkedHashMap::replace: an existing entry keeps its place, a new one goes to the back
Hash_replace(h, k, v) ==
    IF Hash_contains_key(h, k)
    THEN [h EXCEPT ![Hash_index(h, k)] = [k |-> k, v |-> v]]
    ELSE Append(h, [k |-> k, v |-> v])

\* LinkedHashMap::insert: the entry goes to the back, also when the key exists
Hash_insert(h, k, v) ==
    IF Hash_contains_key(h, k)
    THEN Append(RemoveAt(h, Hash_index(h, k)), [k |-> k, v |-> v])
    ELSE Append(h, [k |-> k, v |-> v])

----------------------------------------------------------------------------
(* Results: Ok(val) or Err(err); an error is its message and what it quotes *)

NoErr == [msg |-> "", path |-> <<>>, doc |-> YBadValue]

Ok(v) == [ok |-> TRUE, val |-> v, err |-> NoErr]

\* anyhow!("Invalid key: {full:?}")
ErrInvalidKey(full) ==
    [ok |-> FALSE, val |-> YBadValue,
     err |-> [msg |-> "Invalid key", path |-> full, doc |-> YBadValue]]

\* anyhow!("Value for key {full:?} is not a hash")
ErrValueForKeyNotHash(full) ==
    [ok |-> FALSE, val |-> YBadValue,
     err |-> [msg |-> "Value for key is not a hash", path |-> full, doc |-> YBadValue]]

\* anyhow!("Value for {key:?} is not a hash")
ErrValueNotHash(key) ==
    [ok |-> FALSE, val |-> YBadValue,
     err |-> [msg |-> "Value is not a hash", path |-> key, doc |-> YBadValue]]

\* anyhow!("YAML string is not a hash: {doc:?}")
ErrStringNotHash(doc) ==
    [ok |-> FALSE, val |-> YBadValue,
     err |-> [msg |-> "YAML string is not a hash", path |-> <<>>, doc |-> doc]]

----------------------------------------------------------------------------
(* fn merge(a: &Hash, b: &Hash) -> Hash *)

RECURSIVE merge(_, _)
RECURSIVE merge_loop(_, _, _)

\* a merge that never recurses: the incoming value always wins
both_hash_never(r, k, v) == FALSE

\* if let Yaml::Hash(bh) = v && let Some(Yaml::Hash(rh)) = r.get(k)
both_hash(r, k, v) ==
    /\ v.t = "Hash"
    /\ Hash_get(r, k) # <<>>
    /\ Hash_get(r, k)[1].t = "Hash"

\* a merge whose deep-merged entry is inserted, and so moves to the back
put_merged_insert(r, k, m) == Hash_insert(r, k, m)

\* the entry of the merged nested hashes
put_merged(r, k, m) ==
    IF Hash_contains_key(r, k) THEN Hash_replace(r, k, m) ELSE Hash_insert(r, k, m)

\* a merge whose overwritten entry is inserted, and so moves to the back
put_value_insert(r, k, v) == Hash_insert(r, k, v)

\* the entry of the incoming value, verbatim
put_value(r, k, v) ==
    IF Hash_contains_key(r, k) THEN Hash_replace(r, k, v) ELSE Hash_insert(r, k, v)

\* one turn of the loop over b
merge_step(r, k, v) ==
    IF both_hash(r, k, v)
    THEN put_merged(r, k, YHash(merge(Hash_get(r, k)[1].h, v.h)))
    ELSE put_value(r, k, v)

merge_loop(r, b, i) ==
    IF i > Len(b) THEN r ELSE merge_loop(merge_step(r, b[i].k, b[i].v), b, i + 1)

merge(a, b) == merge_loop(a, b, 1)

----------------------------------------------------------------------------
(* fn get_yaml(key: &str, sep: &str, yaml: &Yaml, full: &str) -> Result<Yaml> *)

is_empty(s) == Len(s) = 0

RECURSIVE split_collapse(_, _)
\* a split that takes a run of separators for one: it yields no empty piece but a last one
split_collapse(s, sep) ==
    IF \E i \in DOMAIN s : s[i] = sep
    THEN LET i == CHOOSE j \in DOMAIN s :
                      s[j] = sep /\ \A l \in 1..(j - 1) : s[l] # sep
             rest == split_collapse(SubSeq(s, i + 1, Len(s)), sep)
         IN IF i = 1 THEN rest ELSE <<SubSeq(s, 1, i - 1)>> \o rest
    ELSE <<s>>

RECURSIVE split(_, _)
\* key.split(sep): the pieces between the separators, empty ones included
split(s, sep) ==
    IF \E i \in DOMAIN s : s[i] = sep
    THEN LET i == CHOOSE j \in DOMAIN s :
                      s[j] = sep /\ \A l \in 1..(j - 1) : s[l] # sep
         IN <<SubSeq(s, 1, i - 1)>> \o split(SubSeq(s, i + 1, Len(s)), sep)
    ELSE <<s>>

RECURSIVE join_nosep(_, _)
\* a join that leaves the separator out
join_nosep(v, sep) == IF Len(v) = 0 THEN <<>> ELSE v[1] \o join_nosep(Tail(v), sep)

RECURSIVE join(_, _)
\* Vec<&str>::join(sep)
join(v, sep) ==
    IF Len(v) = 0 THEN <<>>
    ELSE IF Len(v) = 1 THEN v[1]
    ELSE v[1] \o <<sep>> \o join(Tail(v), sep)

RECURSIVE get_yaml(_, _, _, _)

\* the body of get_yaml for a key that is not empty
get_yaml_step(key, sep, yaml, full) ==
    LET s == split(key, sep)
        this == Head(s)
        next == join(Tail(s), sep)
    IN IF yaml.t = "Hash"
       THEN LET got == Hash_get(yaml.h, YString(this))
            IN IF got # <<>>
               THEN IF is_empty(next)
                    THEN Ok(got[1])
                    ELSE LET full2 == IF is_empty(full)
                                      THEN key
                                      ELSE full \o <<sep>> \o this
                         IN get_yaml(next, sep, got[1], full2)
               ELSE ErrInvalidKey(full)
       ELSE ErrValueForKeyNotHash(full)

\* a get_yaml without the return of the root for the empty key
get_yaml_no_root(key, sep, yaml, full) == get_yaml_step(key, sep, yaml, full)

get_yaml(key, sep, yaml, full) ==
    IF is_empty(key) THEN Ok(yaml) ELSE get_yaml_step(key, sep, yaml, full)

----------------------------------------------------------------------------
(* impl YamlHash: a container is [data |-> Hash] *)

\* YamlHash::new
YamlHash_new == [data |-> <<>>]

\* YamlHash::merge: a clone of self with the merged data
YamlHash_merge(self, other) ==
    LET r == self IN [r EXCEPT !.data = merge(r.data, other.data)]

RECURSIVE merge_str_loop(_, _, _)
\* the loop of merge_str over the documents the loader returned
merge_str_loop(r, docs, i) ==
    IF i > Len(docs) THEN Ok(YHash(r.data))
    ELSE IF docs[i].t = "Hash"
         THEN merge_str_loop([r EXCEPT !.data = merge(r.data, docs[i].h)], docs, i + 1)
         ELSE ErrStringNotHash(docs[i])

RECURSIVE merge_str_skip(_, _, _)
\* a merge_str that passes over a document that is no hash
merge_str_skip(r, docs, i) ==
    IF i > Len(docs) THEN Ok(YHash(r.data))
    ELSE IF docs[i].t = "Hash"
         THEN merge_str_skip([r EXCEPT !.data = merge(r.data, docs[i].h)], docs, i + 1)
         ELSE merge_str_skip(r, docs, i + 1)

YamlHash_merge_str_lenient(self, docs) == merge_str_skip(self, docs, 1)

\* YamlHash::merge_str, from the documents of the string on
YamlHash_merge_str(self, docs) == merge_str_loop(self, docs, 1)

\* YamlHash::get_yaml
YamlHash_get_yaml(self, key) == get_yaml(key, Dot, YHash(self.data), <<>>)

\* YamlHash::get
YamlHash_get(self, key) ==
    LET r == YamlHash_get_yaml(self, key)
    IN IF ~r.ok THEN r
       ELSE IF into_hash(r.val) # <<>>
            THEN Ok(YHash(into_hash(r.val)[1]))
            ELSE ErrValueNotHash(key)


----------------------------------------------------------------------------
(* The values the inputs are drawn from *)

Str(c) == YString(<<c>>)

\* the hashes of exactly n entries (nested ones included), with keys of K and
\* scalars of S, from tab, where tab[m + 1] is the set of those of m entries, m < n
HashesOfSize(K, S, tab, n) ==
    UNION {
      LET vals == IF m = 1 THEN S \cup {YHash(<<>>)} ELSE {YHash(h) : h \in tab[m]}
      IN UNION { { <<[k |-> k, v |-> v]>> \o rest : v \in vals, k \in K \ Hash_keys(rest) }
                 : rest \in tab[n - m + 1] }
      : m \in 1..n }

RECURSIVE HashTable(_, _, _, _)
\* tab extended up to the hashes of n entries
HashTable(K, S, tab, n) ==
    IF Len(tab) > n THEN tab
    ELSE HashTable(K, S, Append(tab, HashesOfSize(K, S, tab, Len(tab))), n)

RECURSIVE StringsOfLen(_, _)
StringsOfLen(C, n) ==
    IF n = 0 THEN {<<>>} ELSE {<<c>> \o s : c \in C, s \in StringsOfLen(C, n - 1)}

StringsUpTo(C, n) == UNION {StringsOfLen(C, m) : m \in 0..n}

RECURSIVE SeqsUpTo(_, _)
SeqsUpTo(D, n) ==
    IF n = 0 THEN {<<>>}
    ELSE SeqsUpTo(D, n - 1) \cup {Append(q, d) : q \in {x \in SeqsUpTo(D, n - 1) : Len(x) = n - 1}, d \in D}

\* tab[m + 1] is the set of the hashes of m entries, for m up to n
Hashes(K, S, n) == HashTable(K, S, <<{<<>>}>>, n)

\* operands of merge: few keys and deep, or more keys and less deep
DeepKeys == {Str("a"), Str("b")}
WideKeys == {Str("a"), Str("b"), Str("c")}
MergeScalars == {YInteger(1), YInteger(2)}

\* roots and dotted keys of a lookup
RootKeys == {Str("a"), YString(<<>>)}
RootScalars == {YInteger(1), YInteger(2)}
KeyChars == {"a", "b", Dot}
DottedKeys == StringsUpTo(KeyChars, MaxKeyLen)

\* documents and dotted keys of the lifecycle
E(c, v) == [k |-> Str(c), v |-> v]
Docs ==
    { YHash(<<E("a", YHash(<<E("a", YInteger(1))>>))>>),
      YHash(<<E("b", YInteger(2)), E("a", YHash(<<E("b", YInteger(1))>>))>>),
      YInteger(1) }
Texts == SeqsUpTo(Docs, MaxDocs)
LifeKeys == {<<>>, <<"a">>, <<"a", Dot, "b">>}

----------------------------------------------------------------------------
(* State: the containers alive, and the last call with its result *)

Call(op, self, other, key, docs, res) ==
    [op |-> op, self |-> self, other |-> other, key |-> key, docs |-> docs, res |-> res]

NoCall == Call("none", 0, 0, <<>>, <<>>, Ok(YBadValue))

\* a merge that writes the merged data into self, and returns it
store_merge_in_place(st, i, j) ==
    LET r == YamlHash_merge(st[i], st[j]) IN Append([st EXCEPT ![i] = r], r)

\* the containers after hash.merge(&other): the operands, and the new container
store_merge(st, i, j) == Append(st, YamlHash_merge(st[i], st[j]))

\* the containers after hash.merge_str(s): the new container exists only on Ok
store_merge_str(st, i, docs) ==
    LET r == YamlHash_merge_str(st[i], docs)
    IN IF r.ok THEN Append(st, [data |-> r.val.h]) ELSE st

\* the containers after hash.get(key): the new container exists only on Ok
store_get(st, i, key) ==
    LET r == YamlHash_get(st[i], key)
    IN IF r.ok THEN Append(st, [data |-> r.val.h]) ELSE st

New ==
    /\ store' = Append(store, YamlHash_new)
    /\ last' = Call("new", 0, 0, <<>>, <<>>, Ok(YHash(YamlHash_new.data)))

Merge(i, j) ==
    /\ store' = store_merge(store, i, j)
    /\ last' = Call("merge", i, j, <<>>, <<>>, Ok(YHash(YamlHash_merge(store[i], store[j]).data)))

MergeStr(i, docs) ==
    /\ store' = store_merge_str(store, i, docs)
    /\ last' = Call("merge_str", i, 0, <<>>, docs, YamlHash_merge_str(store[i], docs))

GetYaml(i, key) ==
    /\ store' = store
    /\ last' = Call("get_yaml", i, 0, key, <<>>, YamlHash_get_yaml(store[i], key))

Get(i, key) ==
    /\ store' = store_get(store, i, key)
    /\ last' = Call("get", i, 0, key, <<>>, YamlHash_get(store[i], key))

----------------------------------------------------------------------------
(* The lifecycle of containers: created empty, then merged and looked up *)

Init ==
    /\ store = <<YamlHash_new>>
    /\ last = NoCall

\* the model stops creating containers at MaxStore of them
Bounded == Len(store) < MaxStore

Next ==
    \/ Bounded /\ New
    \/ Bounded /\ \E i, j \in DOMAIN store : Merge(i, j)
    \/ Bounded /\ \E i \in DOMAIN store, docs \in Texts : MergeStr(i, docs)
    \/ Bounded /\ \E i \in DOMAIN store, key \in LifeKeys : GetYaml(i, key)
    \/ Bounded /\ \E i \in DOMAIN store, key \in LifeKeys : Get(i, key)

Spec == Init /\ [][Next]_vars

(* merge as a function of its two operands *)

DeepTable == Hashes(DeepKeys, MergeScalars, MaxMergeNodes)
WideTable == IF MaxMergeNodes >= 2 THEN Hashes(WideKeys, MergeScalars, MaxMergeNodes - 2) ELSE <<>>
RootTable == Hashes(RootKeys, RootScalars, MaxRootNodes)

\* the two operands are of tab and have at most n entries together
MergeOperands(tab, n) ==
    \E na \in 0..n : \E nb \in 0..(n - na) :
       \E a \in tab[na + 1], b \in tab[nb + 1] :
          store = <<[data |-> a], [data |-> b]>>

InitMerge ==
    /\ \/ MergeOperands(DeepTable, MaxMergeNodes)
       \/ MaxMergeNodes >= 2 /\ MergeOperands(WideTable, MaxMergeNodes - 2)
    /\ last = NoCall

\* one call on the operands drawn
Uncalled == last.op = "none"

NextMerge ==
    \/ Uncalled /\ Merge(1, 2)
    \/ Uncalled /\ Merge(1, 1)

SpecMerge == InitMerge /\ [][NextMerge]_vars

(* get_yaml and get as functions of the root and the dotted key *)

InitLookup ==
    /\ \E n \in 0..MaxRootNodes : \E r \in RootTable[n + 1] : store = <<[data |-> r]>>
    /\ last = NoCall

NextLookup ==
    \/ Uncalled /\ \E key \in DottedKeys : GetYaml(1, key)
    \/ Uncalled /\ \E key \in DottedKeys : Get(1, key)

SpecLookup == InitLookup /\ [][NextLookup]_vars


----------------------------------------------------------------------------
(* What the claims speak of *)

\* the value a hash holds for a key it has
At(h, k) == h[CHOOSE i \in DOMAIN h : h[i].k = k].v

KeySeq(h) == [i \in DOMAIN h |-> h[i].k]

IsMerge == last.op = "merge"
Base == store[last.self].data
Incoming == store[last.other].data
Merged == last.res.val.h

\* the places of the delimiters of a dotted key, and its segments
Dots(key) == {i \in DOMAIN key : key[i] = Dot}
SegStart(key, j) ==
    IF j = 1 THEN 1
    ELSE 1 + CHOOSE i \in Dots(key) : Cardinality({d \in Dots(key) : d < i}) = j - 2
SegEnd(key, j) ==
    IF j = Cardinality(Dots(key)) + 1 THEN Len(key)
    ELSE (CHOOSE i \in Dots(key) : Cardinality({d \in Dots(key) : d < i}) = j - 1) - 1
Segments(key) ==
    [j \in 1..(Cardinality(Dots(key)) + 1) |-> SubSeq(key, SegStart(key, j), SegEnd(key, j))]

\* the dotted prefix of a key up to and including its segment j
PrefixThrough(key, j) == SubSeq(key, 1, SegEnd(key, j))

\* the segments without an empty last one
LookedUp(segs) ==
    IF Len(segs) > 0 /\ segs[Len(segs)] = <<>> THEN SubSeq(segs, 1, Len(segs) - 1) ELSE segs

RECURSIVE Walk(_, _, _)
\* every segment from the i-th on taken as a literal key, one level of nesting each:
\* "found" with the value, "absent" at the segment whose key is missing, or
\* "not_mapping" at the segment that gave a value that is no Mapping
Walk(y, segs, i) ==
    IF i > Len(segs) THEN [kind |-> "found", val |-> y, at |-> i - 1]
    ELSE IF y.t # "Hash" THEN [kind |-> "not_mapping", val |-> YBadValue, at |-> i - 1]
    ELSE IF YString(segs[i]) \notin Hash_keys(y.h)
         THEN [kind |-> "absent", val |-> YBadValue, at |-> i]
         ELSE Walk(At(y.h, YString(segs[i])), segs, i + 1)

IsGetYaml == last.op = "get_yaml"
Root == YHash(store[last.self].data)
Segs == Segments(last.key)
Walked == Walk(Root, Segs, 1)
HasEmptySegment == \E j \in DOMAIN Segs : Segs[j] = <<>>

----------------------------------------------------------------------------
(* Merge Engine *)

RECURSIVE MergedValues(_, _, _)
\* r has the keys of a and b, and for each key the value C1 names
MergedValues(a, b, r) ==
    /\ Hash_keys(r) = Hash_keys(a) \cup Hash_keys(b)
    /\ Len(r) = Cardinality(Hash_keys(r))
    /\ \A k \in Hash_keys(r) :
         IF k \notin Hash_keys(b) THEN At(r, k) = At(a, k)
         ELSE IF k \notin Hash_keys(a) THEN At(r, k) = At(b, k)
         ELSE IF At(a, k).t = "Hash" /\ At(b, k).t = "Hash"
              THEN /\ At(r, k).t = "Hash"
                   /\ MergedValues(At(a, k).h, At(b, k).h, At(r, k).h)
              ELSE At(r, k) = At(b, k)

\* C1: merge(base, incoming) has exactly the keys of both; a key of base alone keeps
\* base's value, a key of incoming alone has incoming's, a key of both has the merge of
\* the two values when both are Mappings and incoming's value verbatim otherwise.
C1_MergeValues == IsMerge => MergedValues(Base, Incoming, Merged)

\* a merge with a key of base alone, and a key whose two Mappings were merged into a
\* third, different from both
C1_Witness ==
    /\ IsMerge
    /\ \E k \in Hash_keys(Base) : k \notin Hash_keys(Incoming)
    /\ \E k \in Hash_keys(Base) \cap Hash_keys(Incoming) :
         /\ At(Base, k).t = "Hash" /\ At(Incoming, k).t = "Hash"
         /\ At(Merged, k) # At(Base, k) /\ At(Merged, k) # At(Incoming, k)

RECURSIVE KeyOrderKept(_, _, _)
\* the keys of r are those of a in a's order, then the new ones of b in b's order,
\* and so at every level where two Mappings were merged
KeyOrderKept(a, b, r) ==
    LET IsNew(e) == e.k \notin Hash_keys(a)
    IN /\ KeySeq(r) = KeySeq(a) \o KeySeq(SelectSeq(b, IsNew))
       /\ \A i \in DOMAIN a :
            (/\ a[i].v.t = "Hash"
             /\ a[i].k \in Hash_keys(b)
             /\ At(b, a[i].k).t = "Hash")
            => /\ r[i].v.t = "Hash"
               /\ KeyOrderKept(a[i].v.h, At(b, a[i].k).h, r[i].v.h)

\* C2: at every nesting level the keys of merge(base, incoming) are the keys of base in
\* base's order (an overwritten or deep-merged key keeps its place), followed by the
\* keys of incoming alone, in incoming's order.
C2_KeyOrder == IsMerge => KeyOrderKept(Base, Incoming, Merged)

\* a merge that overwrote the first entry of base, where it stays, and added a key that
\* incoming lists first
C2_Witness ==
    /\ IsMerge
    /\ Len(Base) >= 1 /\ Len(Incoming) >= 2
    /\ Incoming[1].k \notin Hash_keys(Base)
    /\ Base[1].k \in Hash_keys(Incoming)
    /\ Merged[1].k = Base[1].k /\ Merged[1].v # Base[1].v

\* C8: merge(x, x) is x, with the key order of x at every level.
C8_Idempotent == (IsMerge /\ last.self = last.other) => Merged = Base

\* a merge of a hash with itself, the hash having scalars and a nested Mapping
C8_Witness ==
    /\ IsMerge /\ last.self = last.other
    /\ \E i, j \in DOMAIN Base :
         /\ Base[i].v.t = "Hash" /\ Len(Base[i].v.h) >= 2
         /\ Base[j].v.t = "Integer"

----------------------------------------------------------------------------
(* Path Resolver *)

\* C3 (as stated): a lookup that fails because a segment's key is absent from the
\* mapping reached so far fails with "Invalid key", carrying the dotted prefix of the
\* requested path up to and including the failing segment.
C3_KeyNotFoundPrefix ==
    (IsGetYaml /\ ~is_empty(last.key) /\ ~last.res.ok /\ Walked.kind = "absent")
    => /\ last.res.err.msg = "Invalid key"
       /\ last.res.err.path = PrefixThrough(last.key, Walked.at)

\* C4 (as stated, for paths without empty segments: C5 is about those): a lookup in
\* which a segment resolves to a value that is no Mapping while further segments remain
\* fails with "is not a hash", never "Invalid key", carrying the dotted prefix ending
\* at that segment.
C4_NotAMappingPrefix ==
    (IsGetYaml /\ ~is_empty(last.key) /\ ~HasEmptySegment /\ Walked.kind = "not_mapping")
    => /\ ~last.res.ok
       /\ last.res.err.msg = "Value for key is not a hash"
       /\ last.res.err.path = PrefixThrough(last.key, Walked.at)

\* the lookup gives what the walk over segs gives: both fail, or both find the same value
AgreesWithWalk(segs) ==
    LET w == Walk(Root, segs, 1)
    IN /\ last.res.ok <=> w.kind = "found"
       /\ last.res.ok => last.res.val = w.val

\* C5 (as stated): every empty segment of a non-empty path (leading, consecutive or
\* trailing delimiter) is looked up as the literal empty key at its level, never skipped.
C5_EmptySegmentsLiteral ==
    (IsGetYaml /\ ~is_empty(last.key) /\ HasEmptySegment) => AgreesWithWalk(Segs)

\* C5 (amended): every empty segment of a non-empty path but an empty last one is
\* looked up as the literal empty key at its level; an empty last segment (the path
\* ends with the delimiter) is not looked up, so that "a." gives the value at "a".
C5_EmptySegmentsButLast ==
    (IsGetYaml /\ ~is_empty(last.key) /\ HasEmptySegment) => AgreesWithWalk(LookedUp(Segs))

\* a lookup of "a..a"-like path that found a value through the empty key, and so
\* through consecutive delimiters
C5_Witness ==
    /\ IsGetYaml /\ last.res.ok
    /\ Len(Segs) = 3 /\ Segs[1] # <<>> /\ Segs[2] = <<>> /\ Segs[3] # <<>>

\* C9: a lookup with the empty path never fails: get_yaml("") gives the root as a
\* Mapping value, get("") a container equal to the one asked.
C9_EmptyPathIsRoot ==
    /\ (IsGetYaml /\ is_empty(last.key)) => (last.res.ok /\ last.res.val = Root)
    /\ (last.op = "get" /\ is_empty(last.key))
       => /\ last.res.ok /\ last.res.val = Root
          /\ store[Len(store)] = store[last.self]

\* get("") on a root with entries, nested ones too
C9_Witness ==
    /\ last.op = "get" /\ is_empty(last.key)
    /\ Len(store) = 2
    /\ \E i \in DOMAIN Root.h : Root.h[i].v.t = "Hash" /\ Len(Root.h[i].v.h) >= 1

RECURSIVE Chain(_, _)
\* c.get(s1).get(s2)...get_yaml(sn)
Chain(c, segs) ==
    IF Len(segs) = 1 THEN YamlHash_get_yaml(c, segs[1])
    ELSE LET g == YamlHash_get(c, segs[1])
         IN IF g.ok THEN Chain([data |-> g.val.h], Tail(segs)) ELSE g

\* C10: for a path of non-empty segments, get_yaml of the path succeeds exactly when
\* the chain of get on all segments but the last and get_yaml on the last does, and
\* then both give the value under the last segment in the mapping reached.
C10_ChainedLookup ==
    (IsGetYaml /\ ~is_empty(last.key) /\ ~HasEmptySegment)
    => LET ch == Chain(store[last.self], Segs)
       IN /\ last.res.ok <=> ch.ok
          /\ last.res.ok => (last.res.val = ch.val /\ last.res.val = Walked.val)

\* a lookup of three segments that found its value
C10_Witness ==
    /\ IsGetYaml /\ last.res.ok
    /\ Len(Segs) = 3 /\ ~HasEmptySegment

----------------------------------------------------------------------------
(* Container Wrapper *)

RECURSIVE FoldMerge(_, _)
\* merge(...merge(merge(h, d1), d2)..., dn) of the Mappings d1..dn
FoldMerge(h, docs) ==
    IF Len(docs) = 0 THEN h
    ELSE merge(FoldMerge(h, SubSeq(docs, 1, Len(docs) - 1)), docs[Len(docs)].h)

\* C6: merge_str on the documents d1..dn fails exactly when some di is no Mapping,
\* wherever it stands, and then gives no container; otherwise it gives the container
\* of the left-to-right fold of merge over the documents, which for n = 0 is c.
C6_MergeStrFold ==
    last.op = "merge_str"
    => LET c == store[last.self]
           bad == \E i \in DOMAIN last.docs : last.docs[i].t # "Hash"
       IN /\ ~last.res.ok <=> bad
          /\ bad => last.res.val = YBadValue
          /\ ~bad => /\ last.res.val = YHash(FoldMerge(c.data, last.docs))
                     /\ store[Len(store)] = [data |-> FoldMerge(c.data, last.docs)]
                     /\ Len(last.docs) = 0 => store[Len(store)] = c

\* a merge_str that failed on its second document, after a first one that would have
\* changed the container
C6_Witness ==
    /\ last.op = "merge_str" /\ ~last.res.ok
    /\ Len(last.docs) = 2
    /\ last.docs[1].t = "Hash" /\ last.docs[2].t # "Hash"
    /\ merge(store[last.self].data, last.docs[1].h) # store[last.self].data

\* C7: every container alive before a call is equal to itself after the call: a call
\* gives new containers and values and changes none.
C7_ContainersUnchanged ==
    [][\A i \in DOMAIN store : i \in DOMAIN store' /\ store'[i] = store[i]]_vars

\* a merge whose result differs from both of its operands, both still alive
C7_Witness ==
    /\ IsMerge
    /\ last.self # last.other
    /\ store[Len(store)] # store[last.self]
    /\ store[Len(store)] # store[last.other]


====
